---- MODULE Spec2Model ----
(***************************************************************************)
(* A model of the translation data pipeline (src/src/dataset.py) and of    *)
(* the encoder stack (src/src/encoder.py).                                 *)
(*                                                                         *)
(* Conventions.  A text is the sequence of token ids its tokenization      *)
(* yields; a tensor of token ids is a sequence (1-D) or a sequence of      *)
(* rows (2-D); Python's None is NoneId for ids and <<>> for objects.       *)
(***************************************************************************)
EXTENDS Integers, Sequences, FiniteSets, TLC

VARIABLES
    \* ---- tokenizer, TranslationDataset.__getitem__, collate_fn
    tokenizer,        \* the loaded tokenizer's special-token ids
    tok_state,        \* "loaded" (line 111) | "resolved" (after line 119)
    max_length,       \* TranslationDataset.max_length (model_config.max_seq_len)
    record,           \* <<>> or <<self.data[idx] of the last __getitem__>>
    item,             \* <<>> or <<the dict the last __getitem__ returned>>
    getitem_status,   \* "none" | "returned" | "raised"
    batch,            \* the items the loader has fetched for the current batch
    collated,         \* <<>> or <<the dict collate_fn returned>>
    \* ---- create_dataloaders: arguments and environment
    world_size,       \* number of processes; the ranks are 0..world_size-1
    use_ddp,          \* argument use_ddp
    subset_size,      \* argument subset_size (NoneId for None)
    tokenizer_path,   \* argument tokenizer_path
    files,            \* the paths at which a tokenizer artifact exists
    artifact,         \* the special-token ids a tokenizer artifact defines
    hub_train,        \* the corpus source's train split
    hub_val,          \* the corpus source's validation split
    shuffled,         \* the order train_data.shuffle(seed=seed + 1) yields
    cache_exists,     \* the Multi30k directory of the datasets cache exists
    rmtree_active,    \* shutil.rmtree of that directory is in progress
    cache_users,      \* the ranks inside load_dataset (reading/writing the cache)
    \* ---- create_dataloaders: one call per rank
    proc,             \* rank -> the call's position and local variables
    log,              \* rank -> what the call has printed
    \* ---- one epoch of the returned loaders' samplers
    epoch_order,      \* torch.randperm(N) under the epoch's seed, 0-based
    indices,          \* rank -> <<>> or <<train indices, validation indices>>
    \* ---- Encoder
    encoder,          \* the constructor arguments n_layers, d_model, n_heads, d_ff
    enc_pc,           \* "new" | "config_error" | "forward" | "raised" | "returned"
    x_in,             \* the tensor forward was called with
    mask,             \* the mask forward was called with
    x,                \* forward's x
    layer_index,      \* the position of the loop of forward in self.layers
    calls             \* the layer calls made so far: <<layer, mask>> each

tokVars == <<tokenizer, tok_state, max_length, record, item, getitem_status, batch, collated>>

argVars == <<world_size, use_ddp, subset_size, tokenizer_path, files, artifact,
             hub_train, hub_val, shuffled>>

cacheVars == <<cache_exists, rmtree_active, cache_users>>

pipeVars == <<argVars, cacheVars, proc, log, epoch_order, indices>>

encVars == <<encoder, enc_pc, x_in, mask, x, layer_index, calls>>

vars == <<tokVars, pipeVars, encVars>>

----------------------------------------------------------------------------
(* Bounds of the model. *)
MaxTokenId == 3
MaxTextLen == 1
MaxSeqLen == 3
MaxBatch == 2
MaxWorld == 2
MaxCorpusLen == 2
MaxReplicas == 3
MaxDataset == 4
MaxValDataset == 2
MaxLayers == 3
MaxWidth == 3
MaxHeads == 2

(* Program constants. *)
NoneId == -1
PAD_FALLBACK == 3
BOS_FALLBACK == 1
EOS_FALLBACK == 2

Min(a, b) == IF a <= b THEN a ELSE b
Max(a, b) == IF a >= b THEN a ELSE b

Last(s) == s[Len(s)]

SeqsUpTo(S, n) == UNION {[1..k -> S] : k \in 0..n}

----------------------------------------------------------------------------
(* Tokenizer special tokens, dataset.py lines 111-129. *)

Vocab == 0..MaxTokenId

OptionalIds == {NoneId} \cup Vocab

\* What PreTrainedTokenizerFast(tokenizer_file=...) may expose: each special
\* token id is defined by the artifact or left undefined.
LoadedTokenizers ==
    [pad_token_id : OptionalIds, bos_token_id : OptionalIds, eos_token_id : OptionalIds]

\* Lines 114-119: a missing id takes its fallback, a defined one is kept.
ResolveSpecialTokens(tok) ==
    [pad_token_id |-> IF tok.pad_token_id = NoneId THEN PAD_FALLBACK ELSE tok.pad_token_id,
     bos_token_id |-> IF tok.bos_token_id = NoneId THEN BOS_FALLBACK ELSE tok.bos_token_id,
     eos_token_id |-> IF tok.eos_token_id = NoneId THEN EOS_FALLBACK ELSE tok.eos_token_id]

\* Line 129.
pad_id == tokenizer.pad_token_id

----------------------------------------------------------------------------
(* TranslationDataset.__getitem__, dataset.py lines 21-59. *)

\* The token ids the texts are made of: an ordinary id and the id the PAD
\* fallback takes.
ContentIds == {0, PAD_FALLBACK}

Texts == SeqsUpTo(ContentIds, MaxTextLen)

FlatRecords == [en : Texts, de : Texts]
NestedRecords == [translation : FlatRecords]
Records == FlatRecords \cup NestedRecords

\* Lines 23-28, lang_keys = ('en', 'de').
src_text(rec) == IF "translation" \in DOMAIN rec THEN rec.translation.en ELSE rec.en
tgt_text(rec) == IF "translation" \in DOMAIN rec THEN rec.translation.de ELSE rec.de

\* tokenizer.encode(text, add_special_tokens=False, max_length=m, truncation=True)
\* when it returns: the first m tokens of the text (none for m <= 0).
Encode(text, m) == SubSeq(text, 1, Min(Len(text), Max(m, 0)))

\* Mutant: the special tokens are not accounted for in full.
ContentLimitOffByOne(L) == L - 1

\* Lines 30-41: both sides are truncated to max_length - 2 tokens.
ContentLimit(L) == L - 2

\* Lines 50-51.
bos_id(tok) == IF tok.bos_token_id # NoneId THEN tok.bos_token_id ELSE 1
eos_id(tok) == IF tok.eos_token_id # NoneId THEN tok.eos_token_id ELSE 2

\* Lines 53-59.
Framed(tok, ids) == <<bos_id(tok)>> \o ids \o <<eos_id(tok)>>

GetItemValue(tok, rec, L) ==
    [src |-> Framed(tok, Encode(src_text(rec), ContentLimit(L))),
     tgt |-> Framed(tok, Encode(tgt_text(rec), ContentLimit(L)))]

\* A negative max_length is outside the tokenizer's contract: the fast
\* tokenizer rejects it (the call raises), a tokenizer that truncates token by
\* token returns no content.  Both outcomes are kept.
GetItemCore(rec) ==
    /\ tok_state = "resolved"
    /\ record' = <<rec>>
    /\ \/ /\ item' = <<GetItemValue(tokenizer, rec, max_length)>>
          /\ getitem_status' = "returned"
       \/ /\ ContentLimit(max_length) < 0
          /\ item' = <<>>
          /\ getitem_status' = "raised"

\* dataset[idx] for one example.
GetItem(rec) ==
    /\ getitem_status = "none"
    /\ GetItemCore(rec)
    /\ UNCHANGED <<tokenizer, tok_state, max_length, batch, collated>>
    /\ UNCHANGED <<pipeVars, encVars>>

\* Lines 113-119 of create_dataloaders.
ResolveTokens ==
    /\ tok_state = "loaded"
    /\ tokenizer' = ResolveSpecialTokens(tokenizer)
    /\ tok_state' = "resolved"
    /\ UNCHANGED <<max_length, record, item, getitem_status, batch, collated>>
    /\ UNCHANGED <<pipeVars, encVars>>

----------------------------------------------------------------------------
(* collate_fn, dataset.py lines 61-70, applied by the DataLoader to the    *)
(* items it fetched from the dataset.                                      *)

MaxLen(seqs) ==
    LET lens == {Len(seqs[i]) : i \in 1..Len(seqs)}
    IN  CHOOSE m \in lens : \A n \in lens : n <= m

\* pad_sequence(seqs, batch_first=True, padding_value=pad)
pad_sequence(seqs, pad) ==
    [i \in 1..Len(seqs) |->
        seqs[i] \o [j \in 1..(MaxLen(seqs) - Len(seqs[i])) |-> pad]]

collate_fn(b, pad_token_id) ==
    [src |-> pad_sequence([i \in 1..Len(b) |-> b[i].src], pad_token_id),
     tgt |-> pad_sequence([i \in 1..Len(b) |-> b[i].tgt], pad_token_id)]

\* The loader's fetch of one more example of the batch: dataset[idx].
Fetch(rec) ==
    /\ Len(batch) < MaxBatch
    /\ collated = <<>>
    /\ GetItemCore(rec)
    /\ batch' = IF getitem_status' = "returned" THEN Append(batch, item'[1]) ELSE batch
    /\ UNCHANGED <<tokenizer, tok_state, max_length, collated>>
    /\ UNCHANGED <<pipeVars, encVars>>

\* collate_with_pad = partial(collate_fn, pad_token_id=pad_id), line 176.
Collate ==
    /\ Len(batch) > 0
    /\ collated = <<>>
    /\ collated' = <<collate_fn(batch, pad_id)>>
    /\ UNCHANGED <<tokenizer, tok_state, max_length, record, item, getitem_status, batch>>
    /\ UNCHANGED <<pipeVars, encVars>>

----------------------------------------------------------------------------
(* create_dataloaders, dataset.py lines 72-215: one call per rank, the     *)
(* calls of a distributed job running concurrently.                        *)

Ranks == 0..(world_size - 1)

\* Line 104: the path the function computes, whatever it was called with.
DefaultTokenizerPath == "en-de-tokenizer.json"

Paths == {DefaultTokenizerPath, "custom-tokenizer.json"}

\* Corpus records as load_dataset('bentrevett/multi30k') yields them.
CorpusRecords == [en : {"x", "y"}, de : {"Hallo", "Welt", "Katze"}]

Msg(m, n) == [msg |-> m, n |-> n]

HasMsg(r, m) == \E i \in 1..Len(log[r]) : log[r][i].msg = m

\* print(...) under "if rank == 0": only rank 0 prints.
Stdout(r, msgs) == [log EXCEPT ![r] = IF r = 0 THEN @ \o msgs ELSE @]

\* Line 139.
train_de_sentences(train) == {train[i].de : i \in 1..Len(train)}

\* Line 141.
leaked_samples(train, val) ==
    SelectSeq(val, LAMBDA s : s.de \in train_de_sentences(train))

\* Mutant: the filter matches whole records instead of the target text.
FilterLeakedByRecord(train, val) ==
    SelectSeq(val, LAMBDA example : example \notin {train[i] : i \in 1..Len(train)})

\* Lines 152-154: the validation split without the leaked target sentences.
FilterLeaked(train, val) ==
    LET leaked == leaked_samples(train, val)
        leaked_de_sentences_set == {leaked[i].de : i \in 1..Len(leaked)}
    IN  SelectSeq(val, LAMBDA example : example.de \notin leaked_de_sentences_set)

\* Lines 137-160 on rank 0: <<the validation data to go on with, the prints>>.
LeakageCheckResult(train, val) ==
    LET leaked == leaked_samples(train, val)
        filtered == FilterLeaked(train, val)
    IN  IF Len(leaked) > 0
        THEN [val_data |-> filtered,
              prints |-> <<Msg("leakage_check", 0), Msg("leakage_found", Len(leaked)),
                           Msg("filtered", Len(val) - Len(filtered))>>]
        ELSE [val_data |-> val,
              prints |-> <<Msg("leakage_check", 0), Msg("leakage_passed", 0)>>]

\* Line 165: train_data.shuffle(seed=seed + 1).select(range(subset_size)).
ShuffleSelect(train, order, k) == [i \in 1..k |-> train[order[i]]]

\* Line 162.
TakesSubset(train, k) == k # NoneId /\ k < Len(train)

\* Lines 162-165.
Subset(train, order, k) ==
    IF TakesSubset(train, k) THEN ShuffleSelect(train, order, k) ELSE train

\* Mutant: every rank builds the sampler of rank 0.
SamplerRankZero(r) == r - r

\* Lines 185-186: rank=rank.
SamplerRank(r) == r

\* Lines 184-191: the samplers (<<>> for None) and train_shuffle.
Samplers(r, ddp, W) ==
    IF ddp
    THEN [train_sampler |-> <<[num_replicas |-> W, rank |-> SamplerRank(r), shuffle |-> TRUE]>>,
          val_sampler |-> <<[num_replicas |-> W, rank |-> SamplerRank(r), shuffle |-> FALSE]>>,
          train_shuffle |-> FALSE]
    ELSE [train_sampler |-> <<>>, val_sampler |-> <<>>, train_shuffle |-> TRUE]

\* Lines 195-213.
DataLoaders(p, r, ddp, W) ==
    LET s == Samplers(r, ddp, W)
    IN  [train_loader |-> [dataset |-> p.train_dataset, sampler |-> s.train_sampler,
                           shuffle |-> s.train_shuffle],
         val_loader |-> [dataset |-> p.val_dataset, sampler |-> s.val_sampler,
                         shuffle |-> FALSE]]

\* Mutant: the handler reports on every rank.
ReportsFatalAnyRank(r) == r >= 0

\* Line 179.
ReportsFatal(r) == r = 0

\* Mutant: the process exits without a status.
ExitStatusOmitted == 1 - 1

\* Line 182: sys.exit(1).
ExitStatus == 1

Goto(r, label) == [proc EXCEPT ![r].pc = label]

\* Lines 85-102.  Rank 0 looks for the cached dataset and starts deleting it;
\* the other ranks go straight on.
Start(r) ==
    /\ proc[r].pc = "start"
    /\ IF r = 0
       THEN IF cache_exists
            THEN /\ rmtree_active' = TRUE
                 /\ proc' = Goto(r, "rmtree")
                 /\ log' = Stdout(r, <<Msg("cache_found", 0), Msg("deleting_cache", 0)>>)
            ELSE /\ proc' = Goto(r, "tokenizer")
                 /\ log' = Stdout(r, <<Msg("cache_not_found", 0)>>)
                 /\ UNCHANGED rmtree_active
       ELSE /\ proc' = Goto(r, "tokenizer")
            /\ UNCHANGED <<rmtree_active, log>>
    /\ UNCHANGED <<tokVars, encVars, argVars, cache_exists, cache_users, epoch_order, indices>>

\* Lines 95-100: shutil.rmtree returns, or raises and the error is printed.
\* The directory is gone after a deletion nobody interfered with.
RmtreeEnd(r) ==
    /\ proc[r].pc = "rmtree"
    /\ rmtree_active' = FALSE
    /\ proc' = Goto(r, "tokenizer")
    /\ \/ /\ cache_exists' \in (IF cache_users = {} THEN {FALSE} ELSE BOOLEAN)
          /\ log' = Stdout(r, <<Msg("cache_deleted", 0)>>)
       \/ /\ UNCHANGED cache_exists
          /\ log' = Stdout(r, <<Msg("cache_delete_error", 0)>>)
    /\ UNCHANGED <<tokVars, encVars, argVars, cache_users, epoch_order, indices>>

\* Lines 104-129: the tokenizer is looked for at the computed path, loaded
\* and its special tokens resolved; FileNotFoundError leaves the function.
LoadTokenizer(r) ==
    /\ proc[r].pc = "tokenizer"
    /\ LET path == DefaultTokenizerPath
       IN  IF path \notin files
           THEN /\ proc' = [proc EXCEPT ![r].pc = "raised", ![r].tokenizer_path = path]
                /\ UNCHANGED log
           ELSE /\ proc' = [proc EXCEPT ![r].pc = "load_train",
                                        ![r].tokenizer_path = path,
                                        ![r].tokenizer = <<ResolveSpecialTokens(artifact)>>]
                /\ log' = Stdout(r, <<Msg("loading_tokenizer", 0), Msg("loading_dataset", 0)>>)
    /\ UNCHANGED <<tokVars, encVars, argVars, cacheVars, epoch_order, indices>>

\* Lines 134-135: load_dataset is entered ...
LoadDatasetBegin(r) ==
    /\ proc[r].pc \in {"load_train", "load_val"}
    /\ proc' = Goto(r, IF proc[r].pc = "load_train" THEN "loading_train" ELSE "loading_val")
    /\ cache_users' = cache_users \cup {r}
    /\ UNCHANGED <<tokVars, encVars, argVars, cache_exists, rmtree_active, log, epoch_order, indices>>

\* ... and returns the split, leaving it in the cache.
LoadDatasetEnd(r) ==
    /\ proc[r].pc \in {"loading_train", "loading_val"}
    /\ proc' = IF proc[r].pc = "loading_train"
               THEN [proc EXCEPT ![r].pc = "load_val", ![r].train_data = hub_train]
               ELSE [proc EXCEPT ![r].pc = "leakage_check", ![r].val_data = hub_val]
    /\ cache_users' = cache_users \ {r}
    /\ cache_exists' = TRUE
    /\ UNCHANGED <<tokVars, encVars, argVars, rmtree_active, log, epoch_order, indices>>

\* Lines 137-160: the leakage check and filter, on rank 0 only.
LeakageCheck(r) ==
    /\ proc[r].pc = "leakage_check"
    /\ IF r = 0
       THEN LET res == LeakageCheckResult(proc[r].train_data, proc[r].val_data)
            IN  /\ proc' = [proc EXCEPT ![r].pc = "build", ![r].val_data = res.val_data]
                /\ log' = Stdout(r, res.prints)
       ELSE /\ proc' = Goto(r, "build")
            /\ UNCHANGED log
    /\ UNCHANGED <<tokVars, encVars, argVars, cacheVars, epoch_order, indices>>

\* Lines 162-176: the optional training subset and the two datasets.
BuildDatasets(r) ==
    /\ proc[r].pc = "build"
    /\ LET train == Subset(proc[r].train_data, shuffled, subset_size)
       IN  /\ proc' = [proc EXCEPT ![r].pc = "samplers",
                                   ![r].train_data = train,
                                   ![r].train_dataset = train,
                                   ![r].val_dataset = proc[r].val_data]
           /\ log' = Stdout(r, (IF TakesSubset(proc[r].train_data, subset_size)
                               THEN <<Msg("using_subset", subset_size)>> ELSE <<>>)
                              \o <<Msg("using", Len(train))>>)
    /\ UNCHANGED <<tokVars, encVars, argVars, cacheVars, epoch_order, indices>>

\* The steps of the try block (lines 131-176) that can raise.
CanRaise(r) ==
    \/ proc[r].pc \in {"loading_train", "loading_val", "build"}
    \/ proc[r].pc = "leakage_check" /\ r = 0

\* Lines 178-182: an Exception raised inside the try block is caught,
\* reported by rank 0, and the process exits.
FailInTry(r) ==
    /\ CanRaise(r)
    /\ proc' = [proc EXCEPT ![r].pc = "exited", ![r].exit_status = ExitStatus]
    /\ log' = [log EXCEPT ![r] = IF ReportsFatal(r) THEN Append(@, Msg("fatal", 0)) ELSE @]
    /\ cache_users' = cache_users \ {r}
    /\ UNCHANGED <<tokVars, encVars, argVars, cache_exists, rmtree_active, epoch_order, indices>>

\* Lines 184-215: samplers, loaders, return.
MakeLoaders(r) ==
    /\ proc[r].pc = "samplers"
    /\ proc' = [proc EXCEPT ![r].pc = "done",
                            ![r].loaders = <<DataLoaders(proc[r], r, use_ddp, world_size)>>]
    /\ UNCHANGED <<tokVars, encVars, argVars, cacheVars, log, epoch_order, indices>>

----------------------------------------------------------------------------
(* One epoch of a returned loader's DistributedSampler (the sampler that   *)
(* lines 185-186 construct with the default drop_last=False).              *)

CeilDiv(a, b) == (a + b - 1) \div b

\* The indices rank `rank` of `num_replicas` draws from a dataset of n items
\* whose epoch order is `order` (0-based indices): the order is extended
\* cyclically to a multiple of num_replicas and every num_replicas-th index
\* taken, starting at position rank.
DistributedIndices(n, num_replicas, rank, order) ==
    LET num_samples == CeilDiv(n, num_replicas)
    IN  [k \in 1..num_samples |-> order[(((rank + (k - 1) * num_replicas)) % n) + 1]]

Identity(n) == [i \in 1..n |-> i - 1]

\* shuffle=True draws the epoch's permutation, shuffle=False keeps 0..n-1.
SamplerIndices(loader, order) ==
    LET n == Len(loader.dataset)
        s == loader.sampler[1]
    IN  DistributedIndices(n, s.num_replicas, s.rank,
                           IF s.shuffle THEN order ELSE Identity(n))

\* The training loop iterates both loaders of a rank once.
IterateEpoch(r) ==
    /\ proc[r].pc = "done"
    /\ use_ddp
    /\ indices[r] = <<>>
    /\ indices' = [indices EXCEPT ![r] =
                     <<SamplerIndices(proc[r].loaders[1].train_loader, epoch_order),
                       SamplerIndices(proc[r].loaders[1].val_loader, epoch_order)>>]
    /\ UNCHANGED <<tokVars, encVars, argVars, cacheVars, proc, log, epoch_order>>

----------------------------------------------------------------------------
(* Encoder and EncoderLayer, encoder.py.  A tensor is its shape and the    *)
(* layers it went through; an operation that would raise has shape <<>>.   *)

Tensor(shape, layers) == [shape |-> shape, layers |-> layers]

Failed(t) == t.shape = <<>>

\* The shape of a + b: equal sizes, or one of them 1, in every dimension.
AddShape(a, b) ==
    IF /\ a # <<>> /\ b # <<>> /\ Len(a) = Len(b)
       /\ \A i \in 1..Len(a) : a[i] = b[i] \/ a[i] = 1 \/ b[i] = 1
    THEN [i \in 1..Len(a) |-> Max(a[i], b[i])]
    ELSE <<>>

\* nn.Linear(d_in, d_out)
LinearShape(shape, d_in, d_out) ==
    IF shape # <<>> /\ Last(shape) = d_in
    THEN [shape EXCEPT ![Len(shape)] = d_out]
    ELSE <<>>

\* nn.LayerNorm(d)
LayerNormShape(shape, d) == IF shape # <<>> /\ Last(shape) = d THEN shape ELSE <<>>

\* MultiHeadAttention(d_model, n_heads) needs n_heads to divide d_model.
HeadsDivide(d_model, n_heads) == d_model % n_heads = 0

\* MultiHeadAttention.forward(x, x, x, mask): projects d_model to d_model,
\* the output has the shape of the query.
SelfAttentionShape(shape, d_model) == LinearShape(shape, d_model, d_model)

\* Mutant: the feed-forward block does not project back to d_model.
FeedForwardNoProjection(shape, d_model, d_ff) == LinearShape(shape, d_model, d_ff)

\* Line 8: Linear(d_model, d_ff), GELU, Dropout, Linear(d_ff, d_model).
FeedForwardShape(shape, d_model, d_ff) ==
    LinearShape(LinearShape(shape, d_model, d_ff), d_ff, d_model)

\* EncoderLayer.forward, lines 13-21.
EncoderLayerShape(shape, cfg) ==
    LET attn_output == SelfAttentionShape(shape, cfg.d_model)
        x1 == LayerNormShape(AddShape(shape, attn_output), cfg.d_model)
        ff_output == FeedForwardShape(x1, cfg.d_model, cfg.d_ff)
    IN  LayerNormShape(AddShape(x1, ff_output), cfg.d_model)

EncoderLayerForward(layer, t, cfg) ==
    Tensor(EncoderLayerShape(t.shape, cfg), Append(t.layers, layer))

\* Line 26: self.layers, the layers numbered in list order.
Layers(cfg) == [i \in 1..cfg.n_layers |-> i]

\* Mutant: the loop passes no mask on.
LayerMaskDropped(m) == IF m = "None" THEN m ELSE "None"

\* Line 30: layer(x, mask).
LayerMask(m) == m

\* Encoder.__init__, lines 24-26, followed by the call of forward.
Construct ==
    /\ enc_pc = "new"
    /\ enc_pc' = IF encoder.n_layers > 0 /\ ~HeadsDivide(encoder.d_model, encoder.n_heads)
                 THEN "config_error" ELSE "forward"
    /\ x' = x_in
    /\ layer_index' = 1
    /\ UNCHANGED <<tokVars, pipeVars, encoder, x_in, mask, calls>>

\* Lines 29-30: one iteration of the loop of forward.
ForwardLayer ==
    /\ enc_pc = "forward"
    /\ layer_index <= Len(Layers(encoder))
    /\ LET layer == Layers(encoder)[layer_index]
           out == EncoderLayerForward(layer, x, encoder)
       IN  /\ calls' = Append(calls, <<layer, LayerMask(mask)>>)
           /\ IF Failed(out)
              THEN enc_pc' = "raised" /\ UNCHANGED <<x, layer_index>>
              ELSE x' = out /\ layer_index' = layer_index + 1 /\ UNCHANGED enc_pc
    /\ UNCHANGED <<tokVars, pipeVars, encoder, x_in, mask>>

\* Line 31.
ForwardReturn ==
    /\ enc_pc = "forward"
    /\ layer_index > Len(Layers(encoder))
    /\ enc_pc' = "returned"
    /\ UNCHANGED <<tokVars, pipeVars, encoder, x_in, mask, x, layer_index, calls>>

----------------------------------------------------------------------------
(* Specifications. *)

Perms(n) == {f \in [1..n -> 1..n] : \A i, j \in 1..n : f[i] = f[j] => i = j}

\* The permutations of 0..n-1, as sequences.
Orders(n) == {[i \in 1..n |-> f[i] - 1] : f \in Perms(n)}

UndefinedSpecialTokens ==
    [pad_token_id |-> NoneId, bos_token_id |-> NoneId, eos_token_id |-> NoneId]

\* A call of create_dataloaders that has not started.
NewCall ==
    [pc |-> "start", tokenizer_path |-> "", tokenizer |-> <<>>,
     train_data |-> <<>>, val_data |-> <<>>,
     train_dataset |-> <<>>, val_dataset |-> <<>>,
     loaders |-> <<>>, exit_status |-> 0]

\* No dataset object in use (the pipeline specifications).
TokIdle ==
    /\ tokenizer = UndefinedSpecialTokens
    /\ tok_state = "loaded"
    /\ max_length = 0
    /\ record = <<>>
    /\ item = <<>>
    /\ getitem_status = "none"
    /\ batch = <<>>
    /\ collated = <<>>

\* No call of create_dataloaders in progress (the dataset specifications).
PipeIdle ==
    /\ world_size = 1
    /\ use_ddp = FALSE
    /\ subset_size = NoneId
    /\ tokenizer_path = DefaultTokenizerPath
    /\ files = {DefaultTokenizerPath}
    /\ artifact = UndefinedSpecialTokens
    /\ hub_train = <<>>
    /\ hub_val = <<>>
    /\ shuffled = <<>>
    /\ cache_exists = FALSE
    /\ rmtree_active = FALSE
    /\ cache_users = {}
    /\ proc = [r \in {0} |-> NewCall]
    /\ log = [r \in {0} |-> <<>>]
    /\ epoch_order = <<>>
    /\ indices = [r \in {0} |-> <<>>]

\* No encoder in use.
EncIdle ==
    /\ encoder = [n_layers |-> 0, d_model |-> 1, n_heads |-> 1, d_ff |-> 1]
    /\ enc_pc = "new"
    /\ x_in = Tensor(<<1, 1, 1>>, <<>>)
    /\ mask = "None"
    /\ x = Tensor(<<1, 1, 1>>, <<>>)
    /\ layer_index = 1
    /\ calls = <<>>

EncInit ==
    /\ TokIdle
    /\ PipeIdle
    /\ encoder \in [n_layers : 0..MaxLayers, d_model : 1..MaxWidth,
                    n_heads : 1..MaxHeads, d_ff : 1..MaxWidth]
    /\ enc_pc = "new"
    /\ x_in \in {Tensor(<<b, t, d>>, <<>>) : b \in 1..MaxBatch, t \in 1..MaxSeqLen, d \in 1..MaxWidth}
    /\ mask \in {"None", "padding_mask"}
    /\ x = x_in
    /\ layer_index = 1
    /\ calls = <<>>

EncNext == Construct \/ ForwardLayer \/ ForwardReturn

\* The encoder stack.
SpecEncoder == EncInit /\ [][EncNext]_vars

TokInit ==
    /\ tokenizer \in LoadedTokenizers
    /\ tok_state = "loaded"
    /\ max_length \in 0..MaxSeqLen
    /\ record = <<>>
    /\ item = <<>>
    /\ getitem_status = "none"
    /\ batch = <<>>
    /\ collated = <<>>
    /\ PipeIdle
    /\ EncIdle

ItemNext ==
    \/ ResolveTokens
    \/ \E rec \in Records : GetItem(rec)

BatchNext ==
    \/ ResolveTokens
    \/ \E rec \in Records : Fetch(rec)
    \/ Collate

\* The tokenizer's special tokens and single examples.
SpecItem == TokInit /\ [][ItemNext]_vars

\* Batches of examples through the collator.
SpecBatch == TokInit /\ [][BatchNext]_vars

HubTrainChoices ==
    {<<>>, <<[en |-> "x", de |-> "Hallo"]>>,
     <<[en |-> "x", de |-> "Hallo"], [en |-> "y", de |-> "Welt"]>>}

HubValChoices ==
    {<<>>, <<[en |-> "x", de |-> "Hallo"]>>,
     <<[en |-> "x", de |-> "Hallo"], [en |-> "y", de |-> "Katze"]>>}

Init ==
    /\ TokIdle
    /\ EncIdle
    /\ world_size \in 1..MaxWorld
    /\ use_ddp \in BOOLEAN
    /\ subset_size \in {NoneId, 1}
    /\ tokenizer_path \in Paths
    /\ files \in SUBSET Paths
    /\ artifact = UndefinedSpecialTokens
    /\ hub_train \in HubTrainChoices
    /\ hub_val \in HubValChoices
    /\ shuffled \in Perms(Len(hub_train))
    /\ cache_exists \in BOOLEAN
    /\ rmtree_active = FALSE
    /\ cache_users = {}
    /\ proc = [r \in Ranks |-> NewCall]
    /\ log = [r \in Ranks |-> <<>>]
    /\ epoch_order = <<>>
    /\ indices = [r \in Ranks |-> <<>>]

Next ==
    \/ \E r \in Ranks : Start(r)
    \/ \E r \in Ranks : RmtreeEnd(r)
    \/ \E r \in Ranks : LoadTokenizer(r)
    \/ \E r \in Ranks : LoadDatasetBegin(r)
    \/ \E r \in Ranks : LoadDatasetEnd(r)
    \/ \E r \in Ranks : LeakageCheck(r)
    \/ \E r \in Ranks : BuildDatasets(r)
    \/ \E r \in Ranks : FailInTry(r)
    \/ \E r \in Ranks : MakeLoaders(r)

\* The concurrent calls of create_dataloaders of one job.
Spec == Init /\ [][Next]_vars

Corpora == SeqsUpTo(CorpusRecords, MaxCorpusLen)

\* A call that has loaded the tokenizer and both splits (line 136).
LoadedCall(train, val) ==
    [NewCall EXCEPT !.pc = "leakage_check",
                    !.tokenizer_path = DefaultTokenizerPath,
                    !.tokenizer = <<ResolveSpecialTokens(UndefinedSpecialTokens)>>,
                    !.train_data = train, !.val_data = val]

\* Rank 0 of a single-process job at the leakage check; what it printed
\* before is left out.
FilterInit ==
    /\ TokIdle
    /\ EncIdle
    /\ world_size = 1
    /\ use_ddp = FALSE
    /\ subset_size = NoneId
    /\ tokenizer_path = DefaultTokenizerPath
    /\ files = {DefaultTokenizerPath}
    /\ artifact = UndefinedSpecialTokens
    /\ hub_train \in Corpora
    /\ hub_val \in Corpora
    /\ shuffled = [i \in 1..Len(hub_train) |-> i]
    /\ cache_exists = TRUE
    /\ rmtree_active = FALSE
    /\ cache_users = {}
    /\ proc = [r \in Ranks |-> LoadedCall(hub_train, hub_val)]
    /\ log = [r \in Ranks |-> <<>>]
    /\ epoch_order = <<>>
    /\ indices = [r \in Ranks |-> <<>>]

FilterNext == \E r \in Ranks : LeakageCheck(r)

\* The leakage check and filter over all small corpora.
SpecFilter == FilterInit /\ [][FilterNext]_vars

Repeat(rec, n) == [i \in 1..n |-> rec]

\* A call that reached line 184 with the given datasets.
BuiltCall(train, val) ==
    [LoadedCall(train, val) EXCEPT !.pc = "samplers",
                                   !.train_dataset = train, !.val_dataset = val]

\* Every rank of a distributed job has built its datasets (line 184): the
\* training data is the same on every rank, the validation data is filtered
\* on rank 0 only; the prints so far are left out.
SamplerInit ==
    /\ TokIdle
    /\ EncIdle
    /\ world_size \in 1..MaxReplicas
    /\ use_ddp = TRUE
    /\ subset_size = NoneId
    /\ tokenizer_path = DefaultTokenizerPath
    /\ files = {DefaultTokenizerPath}
    /\ artifact = UndefinedSpecialTokens
    /\ \E n \in 0..MaxDataset, m \in 0..MaxValDataset :
         \E k \in 0..(IF n = 0 THEN 0 ELSE m) :
           /\ hub_train = Repeat([en |-> "x", de |-> "Welt"], n)
           /\ hub_val = Repeat([en |-> "x", de |-> "Welt"], k)
                          \o Repeat([en |-> "y", de |-> "Katze"], m - k)
    /\ shuffled = [i \in 1..Len(hub_train) |-> i]
    /\ cache_exists = TRUE
    /\ rmtree_active = FALSE
    /\ cache_users = {}
    /\ proc = [r \in Ranks |->
                 BuiltCall(hub_train,
                           IF r = 0 THEN LeakageCheckResult(hub_train, hub_val).val_data
                                    ELSE hub_val)]
    /\ log = [r \in Ranks |-> <<>>]
    /\ epoch_order \in Orders(Len(hub_train))
    /\ indices = [r \in Ranks |-> <<>>]

SamplerNext ==
    \/ \E r \in Ranks : MakeLoaders(r)
    \/ \E r \in Ranks : IterateEpoch(r)

\* The samplers of a distributed job and one epoch of their indices.
SpecSampler == SamplerInit /\ [][SamplerNext]_vars

----------------------------------------------------------------------------
(* Claims about the example transform, the special tokens and the collator. *)

Framing(s) ==
    /\ Len(s) >= 2
    /\ s[1] = tokenizer.bos_token_id
    /\ Last(s) = tokenizer.eos_token_id

C6_DistinctAndStable ==
    tok_state = "resolved" =>
        /\ tokenizer.pad_token_id # tokenizer.bos_token_id
        /\ tokenizer.pad_token_id # tokenizer.eos_token_id
        /\ tokenizer.bos_token_id # tokenizer.eos_token_id
        /\ getitem_status = "returned" =>
               \A s \in {item[1].src, item[1].tgt} : Framing(s)

RowsPadded(rows, seqs, pad) ==
    /\ Len(rows) = Len(seqs)
    /\ \A i \in 1..Len(rows) :
        /\ Len(rows[i]) = MaxLen(seqs)
        /\ SubSeq(rows[i], 1, Len(seqs[i])) = seqs[i]
        /\ \A j \in (Len(seqs[i]) + 1)..Len(rows[i]) : rows[i][j] = pad

NoPadInside(seqs, pad) ==
    \A i \in 1..Len(seqs) : \A j \in 1..Len(seqs[i]) : seqs[i][j] # pad

\* C4: both collated tensors are [batch_size, longest], every row is its
\* sequence followed only by pad ids, and the pad id occurs nowhere before
\* that padding suffix.
C4_PaddingIsSuffix ==
    collated # <<>> =>
        LET srcs == [i \in 1..Len(batch) |-> batch[i].src]
            tgts == [i \in 1..Len(batch) |-> batch[i].tgt]
        IN  /\ RowsPadded(collated[1].src, srcs, pad_id)
            /\ RowsPadded(collated[1].tgt, tgts, pad_id)
            /\ NoPadInside(srcs, pad_id)
            /\ NoPadInside(tgts, pad_id)

----------------------------------------------------------------------------
(* Claims about create_dataloaders. *)

Returned(r) == proc[r].pc = "done"

\* C1: on every rank, the validation dataset of the returned val_loader holds
\* no record whose target sentence is the target sentence of a training record.
C1_NoLeakageOnAnyRank ==
    \A r \in Ranks :
        Returned(r) =>
            LET val == proc[r].loaders[1].val_loader.dataset
            IN  \A i \in 1..Len(val) : val[i].de \notin train_de_sentences(hub_train)

BeforeCorpus == {"start", "rmtree", "tokenizer", "raised"}

\* C5: with no artifact at the tokenizer_path argument the call fails before
\* the corpus is fetched; with one, that file is the tokenizer loaded.
C5_TokenizerPathArgument ==
    \A r \in Ranks :
        /\ tokenizer_path \notin files => proc[r].pc \in BeforeCorpus
        /\ proc[r].pc = "raised" => tokenizer_path \notin files
        /\ proc[r].tokenizer # <<>> => proc[r].tokenizer_path = tokenizer_path

C10_CacheDeletionExclusive ==
    /\ \A r \in Ranks : proc[r].pc = "rmtree" => r = 0
    /\ \A r \in Ranks : HasMsg(r, "leakage_check") => r = 0
    /\ ~(rmtree_active /\ cache_users # {})

NotInTraining(s) == s.de \notin {hub_train[i].de : i \in 1..Len(hub_train)}

\* C7: the leakage filter keeps exactly the validation records whose target
\* sentence is no training target sentence, in their order; the count it
\* reports is the number of records removed; with nothing leaked the
\* validation data is unchanged.
C7_FilterKeepsUnleaked ==
    proc[0].pc = "build" =>
        LET kept == proc[0].val_data
            removed == Len(hub_val) - Len(kept)
        IN  /\ kept = SelectSeq(hub_val, NotInTraining)
            /\ IF removed > 0
               THEN /\ Msg("leakage_found", removed) \in {log[0][i] : i \in 1..Len(log[0])}
                    /\ Msg("filtered", removed) \in {log[0][i] : i \in 1..Len(log[0])}
               ELSE /\ kept = hub_val
                    /\ HasMsg(0, "leakage_passed")
                    /\ ~HasMsg(0, "leakage_found") /\ ~HasMsg(0, "filtered")

\* C7 witness: the example of the claim, filtered.
C7_Witness ==
    /\ proc[0].pc = "build"
    /\ train_de_sentences(hub_train) = {"Hallo", "Welt"}
    /\ hub_val = <<[en |-> "x", de |-> "Hallo"], [en |-> "y", de |-> "Katze"]>>
    /\ proc[0].val_data = <<[en |-> "y", de |-> "Katze"]>>
    /\ log[0][2] = Msg("leakage_found", 1)

----------------------------------------------------------------------------
(* Claims about the distributed partition of the indices. *)

AllIterated == \A r \in Ranks : indices[r] # <<>>

\* The number of times index i is handed out over all ranks; d = 1 for the
\* training loader, 2 for the validation loader.
Assignments(d, i) ==
    Cardinality({rk \in Ranks \X (1..(MaxDataset + MaxValDataset)) :
                    /\ rk[2] <= Len(indices[rk[1]][d])
                    /\ indices[rk[1]][d][rk[2]] = i})

InRange(d, r, n) == \A k \in 1..Len(indices[r][d]) : indices[r][d][k] \in 0..(n - 1)

ExactlyOnce(d, n) == \A i \in 0..(n - 1) : Assignments(d, i) = 1

AtLeastOnce(d, n) == \A i \in 0..(n - 1) : Assignments(d, i) >= 1

\* ceil(n / w) = c
IsCeil(c, n, w) == c * w >= n /\ (c - 1) * w < n

SameValidationData == \A r \in Ranks : proc[r].val_dataset = proc[0].val_dataset

\* C2 (as stated): the ranks' index partitions of the training dataset, and
\* of the validation dataset, are pairwise disjoint and cover the dataset's
\* indices: every index is assigned exactly once.
C2_AsStated ==
    AllIterated =>
        \A r \in Ranks :
            /\ InRange(1, r, Len(proc[r].train_dataset))
            /\ ExactlyOnce(1, Len(proc[r].train_dataset))
            /\ InRange(2, r, Len(proc[r].val_dataset))
            /\ ExactlyOnce(2, Len(proc[r].val_dataset))

\* C2 (amended): every rank draws ceil(N/W) indices of its dataset of size N;
\* over a dataset all ranks hold alike (the training dataset always) every
\* index is assigned at least once, and exactly once if and only if W
\* divides N.
C2_CoverWithPadding ==
    AllIterated =>
        /\ \A r \in Ranks :
            /\ InRange(1, r, Len(proc[r].train_dataset))
            /\ IsCeil(Len(indices[r][1]), Len(proc[r].train_dataset), world_size)
            /\ InRange(2, r, Len(proc[r].val_dataset))
            /\ IsCeil(Len(indices[r][2]), Len(proc[r].val_dataset), world_size)
            /\ proc[r].train_dataset = hub_train
        /\ AtLeastOnce(1, Len(hub_train))
        /\ ExactlyOnce(1, Len(hub_train)) <=> Len(hub_train) % world_size = 0
        /\ SameValidationData =>
            /\ AtLeastOnce(2, Len(proc[0].val_dataset))
            /\ ExactlyOnce(2, Len(proc[0].val_dataset))
                   <=> Len(proc[0].val_dataset) % world_size = 0

\* C2 witness: three ranks have drawn from four training examples in a
\* shuffled order, and one index went to two ranks.
C2_Witness ==
    /\ AllIterated
    /\ world_size = 3
    /\ Len(hub_train) = 4
    /\ epoch_order # Identity(4)
    /\ \E i \in 0..3 : Assignments(1, i) = 2

----------------------------------------------------------------------------
(* Claims about the encoder stack. *)

ValidInput == Len(x_in.shape) = 3 /\ Last(x_in.shape) = encoder.d_model

\* C9: forward applies the n_layers layers once each, in list order, with
\* the mask it was given; the output has the shape of the input for every
\* n_layers >= 1 and is the input itself for n_layers = 0.
C9_StackPreservesShape ==
    /\ enc_pc = "returned" =>
        /\ calls = [i \in 1..encoder.n_layers |-> <<i, mask>>]
        /\ x.layers = [i \in 1..encoder.n_layers |-> i]
        /\ x.shape = x_in.shape
        /\ encoder.n_layers = 0 => x = x_in
    /\ enc_pc = "raised" => ~ValidInput

\* C9 witness: a stack of three layers with d_ff # d_model returned, under a mask.
C9_Witness ==
    /\ enc_pc = "returned"
    /\ encoder.n_layers = 3
    /\ encoder.d_ff # encoder.d_model
    /\ mask = "padding_mask"
    /\ x_in.shape = <<2, 3, 2>>

====
